---- MODULE Spec2Model ----
(***************************************************************************)
(* NAA.K.T. material-name generator (pyRevit push button).                 *)
(*                                                                         *)
(* The module models the JSON-backed taxonomy store (class NAAKTData) and  *)
(* the name preview of the generator window.  Python strings are modelled  *)
(* as sequences of one-character strings, so that lower(), strip(),        *)
(* replace() and the ordering used by sorted() are computed, not assumed.  *)
(***************************************************************************)
EXTENDS Integers, Sequences, FiniteSets, TLC

VARIABLES
    namen,                  \* NAAKTData.namen: list of names
    kenmerken_per_naam,     \* NAAKTData.kenmerken_per_naam: dict name -> list
    toepassingen_per_naam,  \* NAAKTData.toepassingen_per_naam: dict name -> list
    disk,                   \* the three JSON files NAMEN_FILE, KENMERKEN_FILE, TOEPASSINGEN_FILE
    dictOrder,              \* iteration order of the runtime's dict (fixed per run, unspecified)
    op,                     \* name of the last call made on the store
    ret,                    \* what it returned: "True", "False", "list", "none", or "raised"
    got,                    \* the list returned by the last get_kenmerken / get_toepassingen
    created,                \* names created by add_naam on this store object
    cmb_naam,               \* window: selected item of the three combo boxes (NoSel: SelectedIndex < 0)
    cmb_kenmerk,
    cmb_toepassing,
    txt_eigen,              \* window: text of the free-text box
    txt_preview,            \* window: text of the preview label
    materials,              \* host document: the Material elements, in collector order
    assets,                 \* host document: names of the AppearanceAssetElement elements
    txn,                    \* what became of the transaction of the last create action
    msg,                    \* the message box the last create action ended with
    match,                  \* result of the last find_closest_material (NoSel: None)
    query,                  \* the name the last find_closest_material was asked for
    calls,                  \* the calls the last create action made from t.Start() on
    logdir,                 \* the files of the log directory
    clock                   \* datetime.now(), in seconds

storeVars == <<namen, kenmerken_per_naam, toepassingen_per_naam>>
ghostVars == <<op, ret, got, created>>
uiVars == <<cmb_naam, cmb_kenmerk, cmb_toepassing, txt_eigen, txt_preview>>
hostVars == <<materials, assets, txn, msg, match, query, calls>>
logVars == <<logdir, clock>>
vars == <<namen, kenmerken_per_naam, toepassingen_per_naam, disk, dictOrder,
          op, ret, got, created,
          cmb_naam, cmb_kenmerk, cmb_toepassing, txt_eigen, txt_preview,
          materials, assets, txn, msg, match, query, calls, logdir, clock>>

----------------------------------------------------------------------------
(* Strings *)

\* Byte value of the characters the model uses (Python 2 str compares bytewise).
CharCode(c) ==
    CASE c = " " -> 32
      [] c = "(" -> 40
      [] c = "A" -> 65
      [] c = "B" -> 66
      [] c = "N" -> 78
      [] c = "_" -> 95
      [] c = "a" -> 97
      [] c = "b" -> 98
      [] c = "d" -> 100
      [] c = "e" -> 101
      [] c = "g" -> 103
      [] c = "h" -> 104
      [] c = "i" -> 105
      [] c = "k" -> 107
      [] c = "n" -> 110
      [] c = "o" -> 111
      [] c = "r" -> 114
      [] c = "t" -> 116
      [] c = "w" -> 119

\* str.lower() on one character.
LowerChar(c) ==
    CASE c = "A" -> "a"
      [] c = "B" -> "b"
      [] c = "C" -> "c"
      [] c = "D" -> "d"
      [] c = "E" -> "e"
      [] c = "F" -> "f"
      [] c = "G" -> "g"
      [] c = "H" -> "h"
      [] c = "I" -> "i"
      [] c = "J" -> "j"
      [] c = "K" -> "k"
      [] c = "L" -> "l"
      [] c = "M" -> "m"
      [] c = "N" -> "n"
      [] c = "O" -> "o"
      [] c = "P" -> "p"
      [] c = "Q" -> "q"
      [] c = "R" -> "r"
      [] c = "S" -> "s"
      [] c = "T" -> "t"
      [] c = "U" -> "u"
      [] c = "V" -> "v"
      [] c = "W" -> "w"
      [] c = "X" -> "x"
      [] c = "Y" -> "y"
      [] c = "Z" -> "z"
      [] OTHER -> c

\* str.lower()
Lower(s) == [i \in 1..Len(s) |-> LowerChar(s[i])]

IsSpace(c) == c = " "

RECURSIVE LStrip(_)
LStrip(s) ==
    IF s # <<>> /\ IsSpace(Head(s)) THEN LStrip(Tail(s)) ELSE s

RECURSIVE RStrip(_)
RStrip(s) ==
    IF s # <<>> /\ IsSpace(s[Len(s)]) THEN RStrip(SubSeq(s, 1, Len(s) - 1)) ELSE s

\* str.strip()
Strip(s) == LStrip(RStrip(s))

\* str.replace(' ', '_')
ReplaceSpace(s) == [i \in 1..Len(s) |-> IF s[i] = " " THEN "_" ELSE s[i]]

\* a < b for Python 2 strings: lexicographic on byte values.
RECURSIVE StrLess(_, _)
StrLess(a, b) ==
    IF b = <<>> THEN FALSE
    ELSE IF a = <<>> THEN TRUE
    ELSE IF CharCode(Head(a)) < CharCode(Head(b)) THEN TRUE
    ELSE IF CharCode(Head(a)) > CharCode(Head(b)) THEN FALSE
    ELSE StrLess(Tail(a), Tail(b))

\* x in lst
InList(x, lst) == \E i \in 1..Len(lst) : lst[i] = x

Range(lst) == {lst[i] : i \in 1..Len(lst)}

RECURSIVE InsertSorted(_, _)
InsertSorted(x, lst) ==
    IF lst = <<>> THEN <<x>>
    ELSE IF StrLess(x, Head(lst)) THEN <<x>> \o lst
    ELSE <<Head(lst)>> \o InsertSorted(x, Tail(lst))

\* sorted(lst): a new ascending list with the same elements (duplicates kept).
RECURSIVE Sorted(_)
Sorted(lst) ==
    IF lst = <<>> THEN <<>>
    ELSE InsertSorted(lst[Len(lst)], Sorted(SubSeq(lst, 1, Len(lst) - 1)))

\* sorted(keys) of a set of strings.
RECURSIVE SortedSet(_)
SortedSet(S) ==
    IF S = {} THEN <<>>
    ELSE LET x == CHOOSE x \in S : \A y \in S : x = y \/ StrLess(x, y)
         IN <<x>> \o SortedSet(S \ {x})

----------------------------------------------------------------------------
(* Vocabulary *)

GENERIEK == <<"g", "e", "n", "e", "r", "i", "e", "k">>
NTB == <<"n", "t", "b">>

\* ['generiek', 'ntb'], the list a new name is seeded with.
DefaultEntries == <<GENERIEK, NTB>>

----------------------------------------------------------------------------
(* The JSON files *)

\* A file on disk: kind "missing" (os.path.exists is False), "malformed"
\* (json.loads raises) or "json"; bom: the text starts with '\xef\xbb\xbf';
\* doc: the top-level JSON object.  A list is a sequence; a JSON object that is
\* a table is the sequence of its <<key, list>> members in the order of the text.
MissingFile == [kind |-> "missing", bom |-> FALSE, doc |-> <<>>]
MalformedFile == [kind |-> "malformed", bom |-> FALSE, doc |-> <<>>]
JsonFile(d) == [kind |-> "json", bom |-> FALSE, doc |-> d]
WithBom(f) == [f EXCEPT !.bom = TRUE]

\* os.path.exists(path)
FileExists(f) == f.kind # "missing"

\* content = f.read(); if content.startswith(BOM): content = content[3:]
StripBom(f) == [f EXCEPT !.bom = FALSE]

\* json.loads(content): raises on malformed text and on a leading BOM.
JsonLoads(f) ==
    IF f.kind = "malformed" \/ f.bom
    THEN [exc |-> TRUE, data |-> <<>>]
    ELSE [exc |-> FALSE, data |-> f.doc]

\* data.get(key, default) on the top-level object.
DictGet(d, key, default) == IF key \in DOMAIN d THEN d[key] ELSE default

\* The dict json.loads builds from the members of a JSON object (last member of a key wins).
ObjToDict(pairs) ==
    [k \in {pairs[i][1] : i \in 1..Len(pairs)} |->
        LET last == CHOOSE i \in 1..Len(pairs) :
                        /\ pairs[i][1] = k
                        /\ \A j \in 1..Len(pairs) : pairs[j][1] = k => j <= i
        IN pairs[last][2]]

EmptyDict == [k \in {} |-> <<>>]

\* The store object as a record, for the operators below.
Mem(n, k, t) == [namen |-> n, kenmerken |-> k, toepassingen |-> t]

\* self.namen = []; self.kenmerken_per_naam = {}; self.toepassingen_per_naam = {}
EmptyMem == Mem(<<>>, EmptyDict, EmptyDict)

\* One "if os.path.exists(F): ... self.X = data.get(key, default)" block of load_data.
\* st = [m, exc]: the store so far and whether an exception is in flight.
LoadNamenStep(st, f) ==
    IF st.exc \/ ~FileExists(f) THEN st
    ELSE LET r == JsonLoads(StripBom(f))
         IN IF r.exc THEN [st EXCEPT !.exc = TRUE]
            ELSE [st EXCEPT !.m.namen = DictGet(r.data, "namen", <<>>)]

\* Mutant of LoadKenmerkenStep: the table is looked up under the wrong key.
LoadKenmerkenStep_WrongKey(st, f) ==
    IF st.exc \/ ~FileExists(f) THEN st
    ELSE LET r == JsonLoads(StripBom(f))
         IN IF r.exc THEN [st EXCEPT !.exc = TRUE]
            ELSE [st EXCEPT !.m.kenmerken =
                      ObjToDict(DictGet(r.data, "kenmerken", <<>>))]

LoadKenmerkenStep(st, f) ==
    IF st.exc \/ ~FileExists(f) THEN st
    ELSE LET r == JsonLoads(StripBom(f))
         IN IF r.exc THEN [st EXCEPT !.exc = TRUE]
            ELSE [st EXCEPT !.m.kenmerken =
                      ObjToDict(DictGet(r.data, "kenmerken_per_naam", <<>>))]

LoadToepassingenStep(st, f) ==
    IF st.exc \/ ~FileExists(f) THEN st
    ELSE LET r == JsonLoads(StripBom(f))
         IN IF r.exc THEN [st EXCEPT !.exc = TRUE]
            ELSE [st EXCEPT !.m.toepassingen =
                      ObjToDict(DictGet(r.data, "toepassingen_per_naam", <<>>))]

\* Mutant of Catch: the except clause logs and re-raises.
Catch_Reraise(st) == [m |-> st.m, logged |-> st.exc, raised |-> st.exc]

\* except Exception as e: log.error(...): the exception is logged, not re-raised.
\* Result: [m |-> the store, logged |-> an error was logged, raised |-> load_data raised].
Catch(st) == [m |-> st.m, logged |-> st.exc, raised |-> FALSE]

\* load_data: the three blocks in one try, then the except clause.
LoadData(m, d) ==
    Catch(LoadToepassingenStep(
              LoadKenmerkenStep(
                  LoadNamenStep([m |-> m, exc |-> FALSE], d.namen),
                  d.kenmerken),
              d.toepassingen))

\* Keys of a dict in the order the runtime iterates them.
DictIter(dict) == SelectSeq(dictOrder, LAMBDA k : k \in DOMAIN dict)

\* json.dumps of a dict name -> list: members in the dict's iteration order.
DumpsTable(dict) == [i \in 1..Len(DictIter(dict)) |-> <<DictIter(dict)[i], dict[DictIter(dict)[i]]>>]

\* _write_json: the file holds json.dumps(data), without BOM.
WriteJson(data) == JsonFile(data)

\* save_namen
SaveNamen(m, d) ==
    [d EXCEPT !.namen =
        WriteJson([beschrijving |-> "Geldige NAA.K.T. NAMEN",
                   namen |-> Sorted(m.namen)])]

\* {naam: sorted(table[naam]) for naam in sorted(table.keys())}
SortedTable(table) ==
    LET keys == SortedSet(DOMAIN table)
    IN [naam \in Range(keys) |-> Sorted(table[naam])]

\* save_kenmerken
SaveKenmerken(m, d) ==
    [d EXCEPT !.kenmerken =
        WriteJson([beschrijving |-> "Geldige NAA.K.T. KENMERKEN per NAAM",
                   kenmerken_per_naam |-> DumpsTable(SortedTable(m.kenmerken))])]

\* save_toepassingen
SaveToepassingen(m, d) ==
    [d EXCEPT !.toepassingen =
        WriteJson([beschrijving |-> "Geldige NAA.K.T. TOEPASSINGEN per NAAM",
                   toepassingen_per_naam |-> DumpsTable(SortedTable(m.toepassingen))])]

\* dict[key] = value
DictSet(dict, key, value) ==
    [k \in DOMAIN dict \cup {key} |-> IF k = key THEN value ELSE dict[k]]

----------------------------------------------------------------------------
(* Bounds and inputs *)

\* Longest name list add_naam is explored up to.
MaxNamen == 2

\* Strings typed into the "new name" prompt.
NaamInputs == { <<>>, <<" ">>, <<"a">>, <<" ", "A", " ">>, <<"b">>, <<"B">> }

\* Strings typed into the "new attribute" prompt.
KenmerkInputs == { <<>>, <<"a">>, <<"A", " ">>, <<"N", "t", "b">> }

\* Strings typed into the "new application" prompt.
ToepassingInputs == { <<" ">>, <<" ", "A">>, <<"N", "t", "b">> }

\* Names the per-name operations are called with.
NaamArgs == { <<"a">>, <<"b">>, <<"A">> }

\* The orders in which the runtime's dict may iterate the keys of a table.
DictOrders == { <<<<"a">>, <<"b">>>>, <<<<"b">>, <<"a">>>> }

NamenDoc(lst) == [beschrijving |-> "Geldige NAA.K.T. NAMEN", namen |-> lst]

KenmerkenDoc(pairs) ==
    [beschrijving |-> "Geldige NAA.K.T. KENMERKEN per NAAM", kenmerken_per_naam |-> pairs]

ToepassingenDoc(pairs) ==
    [beschrijving |-> "Geldige NAA.K.T. TOEPASSINGEN per NAAM", toepassingen_per_naam |-> pairs]

CleanTable == << << <<"a">>, DefaultEntries >> >>

\* The data folder as the tool may find it when it starts.
InitialDisks ==
    { \* fresh installation: no data files yet
      [namen |-> MissingFile, kenmerken |-> MissingFile, toepassingen |-> MissingFile],
      \* files edited by hand, in an editor that adds a BOM
      [namen |-> WithBom(JsonFile(NamenDoc(<< <<"A">>, <<"a">> >>))),
       kenmerken |-> WithBom(JsonFile(KenmerkenDoc(<< << <<"a">>, <<NTB, GENERIEK>> >> >>))),
       toepassingen |-> JsonFile(ToepassingenDoc(CleanTable))],
      \* names file lost, tables kept
      [namen |-> MissingFile,
       kenmerken |-> JsonFile(KenmerkenDoc(CleanTable)),
       toepassingen |-> JsonFile(ToepassingenDoc(CleanTable))],
      \* one file damaged
      [namen |-> MalformedFile,
       kenmerken |-> JsonFile(KenmerkenDoc(CleanTable)),
       toepassingen |-> JsonFile(ToepassingenDoc(CleanTable))],
      [namen |-> JsonFile(NamenDoc(<< <<"a">> >>)),
       kenmerken |-> MalformedFile,
       toepassingen |-> JsonFile(ToepassingenDoc(CleanTable))],
      [namen |-> JsonFile(NamenDoc(<< <<"a">> >>)),
       kenmerken |-> JsonFile(KenmerkenDoc(CleanTable)),
       toepassingen |-> MalformedFile] }

----------------------------------------------------------------------------
(* Operations of NAAKTData.  The adds return [m, d, ret]: the store, the    *)
(* files, and the value returned.                                           *)

\* Mutant of Normalize: the input is stripped but not lowercased.
Normalize_NoLower(raw) == Strip(raw)

\* s.lower().strip()
Normalize(raw) == Strip(Lower(raw))

add_naam(m, d, raw) ==
    LET naam == Normalize(raw)
    IN IF naam # <<>> /\ ~InList(naam, m.namen)
       THEN LET m1 == Mem(Append(m.namen, naam),
                          DictSet(m.kenmerken, naam, DefaultEntries),
                          DictSet(m.toepassingen, naam, DefaultEntries))
            IN [m |-> m1,
                d |-> SaveToepassingen(m1, SaveKenmerken(m1, SaveNamen(m1, d))),
                ret |-> "True"]
       ELSE [m |-> m, d |-> d, ret |-> "False"]

\* Mutant of add_kenmerk: no test whether the attribute is already in the list.
add_kenmerk_AppendsDuplicate(m, d, naam, raw) ==
    LET kenmerk == Normalize(raw)
    IN IF naam \in DOMAIN m.kenmerken /\ kenmerk # <<>>
       THEN LET m1 == [m EXCEPT !.kenmerken[naam] = Append(@, kenmerk)]
            IN [m |-> m1, d |-> SaveKenmerken(m1, d), ret |-> "True"]
       ELSE [m |-> m, d |-> d, ret |-> "False"]

\* Mutant of add_kenmerk: all three files are saved, as add_naam does.
add_kenmerk_SavesAll(m, d, naam, raw) ==
    LET kenmerk == Normalize(raw)
    IN IF naam \in DOMAIN m.kenmerken /\ kenmerk # <<>>
          /\ ~InList(kenmerk, m.kenmerken[naam])
       THEN LET m1 == [m EXCEPT !.kenmerken[naam] = Append(@, kenmerk)]
            IN [m |-> m1,
                d |-> SaveToepassingen(m1, SaveKenmerken(m1, SaveNamen(m1, d))),
                ret |-> "True"]
       ELSE [m |-> m, d |-> d, ret |-> "False"]

add_kenmerk(m, d, naam, raw) ==
    LET kenmerk == Normalize(raw)
    IN IF naam \in DOMAIN m.kenmerken /\ kenmerk # <<>>
          /\ ~InList(kenmerk, m.kenmerken[naam])
       THEN LET m1 == [m EXCEPT !.kenmerken[naam] = Append(@, kenmerk)]
            IN [m |-> m1, d |-> SaveKenmerken(m1, d), ret |-> "True"]
       ELSE [m |-> m, d |-> d, ret |-> "False"]

\* Mutant of add_toepassing: no test whether the normalized input is empty.
add_toepassing_AcceptsEmpty(m, d, naam, raw) ==
    LET toepassing == Normalize(raw)
    IN IF naam \in DOMAIN m.toepassingen
          /\ ~InList(toepassing, m.toepassingen[naam])
       THEN LET m1 == [m EXCEPT !.toepassingen[naam] = Append(@, toepassing)]
            IN [m |-> m1, d |-> SaveToepassingen(m1, d), ret |-> "True"]
       ELSE [m |-> m, d |-> d, ret |-> "False"]

add_toepassing(m, d, naam, raw) ==
    LET toepassing == Normalize(raw)
    IN IF naam \in DOMAIN m.toepassingen /\ toepassing # <<>>
          /\ ~InList(toepassing, m.toepassingen[naam])
       THEN LET m1 == [m EXCEPT !.toepassingen[naam] = Append(@, toepassing)]
            IN [m |-> m1, d |-> SaveToepassingen(m1, d), ret |-> "True"]
       ELSE [m |-> m, d |-> d, ret |-> "False"]

\* Mutant of get_kenmerken: the stored list is returned as it is.
get_kenmerken_Unsorted(m, naam) ==
    IF naam \in DOMAIN m.kenmerken THEN m.kenmerken[naam] ELSE <<>>

\* sorted(self.kenmerken_per_naam.get(naam, []))
get_kenmerken(m, naam) ==
    Sorted(IF naam \in DOMAIN m.kenmerken THEN m.kenmerken[naam] ELSE <<>>)

\* sorted(self.toepassingen_per_naam.get(naam, []))
get_toepassingen(m, naam) ==
    Sorted(IF naam \in DOMAIN m.toepassingen THEN m.toepassingen[naam] ELSE <<>>)

\* NAAKTData(): three empty collections, then load_data.
NewStore(d) == LoadData(EmptyMem, d)

----------------------------------------------------------------------------
(* State machine of the store *)

CurMem == Mem(namen, kenmerken_per_naam, toepassingen_per_naam)

\* No item selected in a combo box (SelectedIndex < 0); a selection is <<item>>.
NoSel == <<>>

\* '(selecteer naam, kenmerk en toepassing)', abbreviated.
Placeholder == <<"(", "s", "e", "l", ")">>

\* The window is not part of the store's state machine.
UiIdle ==
    /\ cmb_naam = NoSel
    /\ cmb_kenmerk = NoSel
    /\ cmb_toepassing = NoSel
    /\ txt_eigen = <<>>
    /\ txt_preview = Placeholder

\* No host document is part of the store's state machine.
HostIdle ==
    /\ materials = <<>>
    /\ assets = <<>>
    /\ txn = "none"
    /\ msg = "none"
    /\ match = NoSel
    /\ query = NoSel
    /\ calls = <<>>

\* No logger is constructed.
LogIdle ==
    /\ logdir = {}
    /\ clock = 0

StoreInit(d) ==
    /\ disk = d
    /\ namen = NewStore(d).m.namen
    /\ kenmerken_per_naam = NewStore(d).m.kenmerken
    /\ toepassingen_per_naam = NewStore(d).m.toepassingen
    /\ op = "__init__"
    /\ ret = IF NewStore(d).raised THEN "raised" ELSE "none"
    /\ got = <<>>
    /\ created = {}

Init ==
    /\ \E d \in InitialDisks : StoreInit(d)
    /\ dictOrder \in DictOrders
    /\ UiIdle
    /\ HostIdle
    /\ LogIdle

WithinBounds(m) == Len(m.namen) <= MaxNamen

\* The tool is started again: a new NAAKTData object reads the files.
Construct ==
    /\ namen' = NewStore(disk).m.namen
    /\ kenmerken_per_naam' = NewStore(disk).m.kenmerken
    /\ toepassingen_per_naam' = NewStore(disk).m.toepassingen
    /\ op' = "__init__"
    /\ ret' = IF NewStore(disk).raised THEN "raised" ELSE "none"
    /\ got' = <<>>
    /\ created' = {}
    /\ UNCHANGED <<disk, dictOrder, uiVars, hostVars, logVars>>

AddNaam(raw) ==
    LET r == add_naam(CurMem, disk, raw)
    IN /\ r.ret = "True" => WithinBounds(r.m)
       /\ namen' = r.m.namen
       /\ kenmerken_per_naam' = r.m.kenmerken
       /\ toepassingen_per_naam' = r.m.toepassingen
       /\ disk' = r.d
       /\ op' = "add_naam"
       /\ ret' = r.ret
       /\ got' = <<>>
       /\ created' = IF r.ret = "True" THEN created \cup {Normalize(raw)} ELSE created
       /\ UNCHANGED <<dictOrder, uiVars, hostVars, logVars>>

AddKenmerk(naam, raw) ==
    LET r == add_kenmerk(CurMem, disk, naam, raw)
    IN /\ namen' = r.m.namen
       /\ kenmerken_per_naam' = r.m.kenmerken
       /\ toepassingen_per_naam' = r.m.toepassingen
       /\ disk' = r.d
       /\ op' = "add_kenmerk"
       /\ ret' = r.ret
       /\ got' = <<>>
       /\ UNCHANGED <<created, dictOrder, uiVars, hostVars, logVars>>

AddToepassing(naam, raw) ==
    LET r == add_toepassing(CurMem, disk, naam, raw)
    IN /\ namen' = r.m.namen
       /\ kenmerken_per_naam' = r.m.kenmerken
       /\ toepassingen_per_naam' = r.m.toepassingen
       /\ disk' = r.d
       /\ op' = "add_toepassing"
       /\ ret' = r.ret
       /\ got' = <<>>
       /\ UNCHANGED <<created, dictOrder, uiVars, hostVars, logVars>>

GetKenmerken(naam) ==
    /\ op' = "get_kenmerken"
    /\ ret' = "list"
    /\ got' = get_kenmerken(CurMem, naam)
    /\ UNCHANGED <<storeVars, disk, created, dictOrder, uiVars, hostVars, logVars>>

GetToepassingen(naam) ==
    /\ op' = "get_toepassingen"
    /\ ret' = "list"
    /\ got' = get_toepassingen(CurMem, naam)
    /\ UNCHANGED <<storeVars, disk, created, dictOrder, uiVars, hostVars, logVars>>

Next ==
    \/ Construct
    \/ \E raw \in NaamInputs : AddNaam(raw)
    \/ \E naam \in NaamArgs, raw \in KenmerkInputs : AddKenmerk(naam, raw)
    \/ \E naam \in NaamArgs, raw \in ToepassingInputs : AddToepassing(naam, raw)
    \/ \E naam \in NaamArgs : GetKenmerken(naam)
    \/ \E naam \in NaamArgs : GetToepassingen(naam)

Spec == Init /\ [][Next]_vars

----------------------------------------------------------------------------
(* The generator window: the three combo boxes, the free text, the preview *)

BETON == <<"b", "e", "t", "o", "n">>
WAND == <<"w", "a", "n", "d">>

\* Texts typed into the free-text box.
EigenInputs ==
    { <<>>, <<" ">>, <<"h">>, <<"A", " ", "b">>, <<" ", "B", " ">>, <<"a", " ", " ", "N">>,
      <<"N", "t", "b">> }

\* Data folders the window is opened on.
UiDisks ==
    { [namen |-> MissingFile, kenmerken |-> MissingFile, toepassingen |-> MissingFile],
      [namen |-> JsonFile(NamenDoc(<<BETON>>)),
       kenmerken |-> JsonFile(KenmerkenDoc(<< <<BETON, DefaultEntries>> >>)),
       toepassingen |-> JsonFile(ToepassingenDoc(<< <<BETON, <<GENERIEK, NTB, WAND>> >> >>))],
      [namen |-> JsonFile(NamenDoc(<< <<"a">>, <<"b">> >>)),
       kenmerken |-> JsonFile(KenmerkenDoc(<< << <<"a">>, DefaultEntries >>,
                                              << <<"b">>, << <<"a">>, <<"h">>, NTB >> >> >>)),
       toepassingen |-> JsonFile(ToepassingenDoc(<< << <<"a">>, DefaultEntries >>,
                                                    << <<"b">>, DefaultEntries >> >>))],
      [namen |-> JsonFile(NamenDoc(<< <<"a">> >>)),
       kenmerken |-> JsonFile(KenmerkenDoc(CleanTable)),
       toepassingen |-> MalformedFile] }

\* '_'.join(parts)
RECURSIVE Join(_)
Join(parts) ==
    IF parts = <<>> THEN <<>>
    ELSE IF Len(parts) = 1 THEN parts[1]
    ELSE parts[1] \o <<"_">> \o Join(Tail(parts))

\* Mutant of NormalizeEigen: blanks are replaced before the text is stripped.
NormalizeEigen_ReplaceFirst(text) == Strip(Lower(ReplaceSpace(text)))

\* self.txt_eigen.Text.strip().lower().replace(' ', '_')
NormalizeEigen(text) == ReplaceSpace(Lower(Strip(text)))

\* _update_preview: the text the preview label gets.  A selection is <<>> or <<item>>.
update_preview(naamSel, kenmerkSel, toepassingSel, text) ==
    LET eigen == NormalizeEigen(text)
        parts == naamSel \o kenmerkSel \o toepassingSel
                 \o (IF eigen # <<>> THEN <<eigen>> ELSE <<>>)
    IN IF Len(parts) >= 3 THEN Join(parts) ELSE Placeholder

\* _get_generated_name: the preview text unless it is empty or starts with '(';
\* None is NoSel, a name is <<name>>.
get_generated_name(text) ==
    IF text # <<>> /\ text[1] # "(" THEN <<text>> ELSE NoSel

\* The selection _on_naam_changed makes in a refilled combo box: 'generiek' if
\* it is an item, else the first item, else none.
DefaultSelection(items) ==
    IF InList(GENERIEK, items) THEN <<GENERIEK>>
    ELSE IF Len(items) > 0 THEN <<items[1]>>
    ELSE NoSel

\* _fill_data: the name box holds sorted(namen), its first item selected.
FirstNaam(m) == IF Len(m.namen) > 0 THEN <<Sorted(m.namen)[1]>> ELSE NoSel

\* Items of the attribute / application box for the selected name.
KenmerkItems == IF cmb_naam = NoSel THEN <<>> ELSE get_kenmerken(CurMem, cmb_naam[1])

ToepassingItems == IF cmb_naam = NoSel THEN <<>> ELSE get_toepassingen(CurMem, cmb_naam[1])

\* NAAKTGeneratorWindow(): the store is loaded, the name box filled, and the
\* selection of its first item runs _on_naam_changed.
WindowInit ==
    /\ cmb_naam = FirstNaam(CurMem)
    /\ cmb_kenmerk = DefaultSelection(KenmerkItems)
    /\ cmb_toepassing = DefaultSelection(ToepassingItems)
    /\ txt_eigen = <<>>
    /\ txt_preview = IF cmb_naam = NoSel THEN Placeholder
                     ELSE update_preview(cmb_naam, cmb_kenmerk, cmb_toepassing, txt_eigen)

InitUI ==
    /\ \E d \in UiDisks : StoreInit(d)
    /\ dictOrder = << <<"a">>, <<"b">> >>
    /\ WindowInit
    /\ HostIdle
    /\ LogIdle

\* The user picks a name: _on_naam_changed refills both boxes and updates the preview.
OnNaamChanged(naam) ==
    /\ InList(naam, namen)
    /\ cmb_naam' = <<naam>>
    /\ cmb_kenmerk' = DefaultSelection(get_kenmerken(CurMem, naam))
    /\ cmb_toepassing' = DefaultSelection(get_toepassingen(CurMem, naam))
    /\ txt_preview' = update_preview(cmb_naam', cmb_kenmerk', cmb_toepassing', txt_eigen)
    /\ UNCHANGED <<txt_eigen, storeVars, disk, dictOrder, ghostVars, hostVars, logVars>>

\* The user picks an attribute: _on_update_preview.
OnKenmerkChanged(kenmerk) ==
    /\ InList(kenmerk, KenmerkItems)
    /\ cmb_kenmerk' = <<kenmerk>>
    /\ txt_preview' = update_preview(cmb_naam, cmb_kenmerk', cmb_toepassing, txt_eigen)
    /\ UNCHANGED <<cmb_naam, cmb_toepassing, txt_eigen, storeVars, disk, dictOrder, ghostVars, hostVars, logVars>>

\* The user picks an application: _on_update_preview.
OnToepassingChanged(toepassing) ==
    /\ InList(toepassing, ToepassingItems)
    /\ cmb_toepassing' = <<toepassing>>
    /\ txt_preview' = update_preview(cmb_naam, cmb_kenmerk, cmb_toepassing', txt_eigen)
    /\ UNCHANGED <<cmb_naam, cmb_kenmerk, txt_eigen, storeVars, disk, dictOrder, ghostVars, hostVars, logVars>>

\* The user edits the free text: _on_update_preview.
OnEigenChanged(text) ==
    /\ txt_eigen' = text
    /\ txt_preview' = update_preview(cmb_naam, cmb_kenmerk, cmb_toepassing, txt_eigen')
    /\ UNCHANGED <<cmb_naam, cmb_kenmerk, cmb_toepassing, storeVars, disk, dictOrder, ghostVars, hostVars, logVars>>

NextUI ==
    \/ \E naam \in {BETON, <<"a">>, <<"b">>} : OnNaamChanged(naam)
    \/ \E kenmerk \in {GENERIEK, NTB, <<"a">>, <<"h">>} : OnKenmerkChanged(kenmerk)
    \/ \E toepassing \in {GENERIEK, NTB, WAND} : OnToepassingChanged(toepassing)
    \/ \E text \in EigenInputs : OnEigenChanged(text)

SpecUI == InitUI /\ [][NextUI]_vars

----------------------------------------------------------------------------
(* Matching a source material (class MateriaalHelper) *)

\* MATERIAAL_KEYWORDS: name -> keywords
MATERIAAL_KEYWORDS ==
    (<<"b", "e", "t", "o", "n">> :>
        << <<"b", "e", "t", "o", "n">>,
           <<"c", "o", "n", "c", "r", "e", "t", "e">>,
           <<"c", "e", "m", "e", "n", "t", "g", "e", "b", "o", "n", "d", "e", "n">> >>) @@
    (<<"h", "o", "u", "t">> :>
        << <<"h", "o", "u", "t">>,
           <<"w", "o", "o", "d">>,
           <<"t", "i", "m", "b", "e", "r">>,
           <<"e", "i", "k", "e", "n">>,
           <<"g", "r", "e", "n", "e", "n">>,
           <<"m", "u", "l", "t", "i", "p", "l", "e", "x">>,
           <<"m", "d", "f">>,
           <<"o", "s", "b">> >>) @@
    (<<"i", "s", "o", "l", "a", "t", "i", "e">> :>
        << <<"i", "s", "o", "l", "a", "t", "i", "e">>,
           <<"i", "n", "s", "u", "l", "a", "t", "i", "o", "n">>,
           <<"e", "p", "s">>,
           <<"x", "p", "s">>,
           <<"p", "i", "r">>,
           <<"p", "u", "r">>,
           <<"m", "i", "n", "e", "r", "a", "l", "e", " ", "w", "o", "l">>,
           <<"g", "l", "a", "s", "w", "o", "l">>,
           <<"r", "o", "t", "s", "w", "o", "l">> >>) @@
    (<<"m", "e", "t", "a", "a", "l">> :>
        << <<"m", "e", "t", "a", "a", "l">>,
           <<"m", "e", "t", "a", "l">>,
           <<"s", "t", "a", "a", "l">>,
           <<"s", "t", "e", "e", "l">>,
           <<"a", "l", "u", "m", "i", "n", "i", "u", "m">>,
           <<"a", "l", "u">>,
           <<"z", "i", "n", "k">>,
           <<"k", "o", "p", "e", "r">> >>) @@
    (<<"s", "t", "e", "e", "n">> :>
        << <<"s", "t", "e", "e", "n">>,
           <<"s", "t", "o", "n", "e">>,
           <<"b", "a", "k", "s", "t", "e", "e", "n">>,
           <<"b", "r", "i", "c", "k">>,
           <<"k", "a", "l", "k", "z", "a", "n", "d", "s", "t", "e", "e", "n">>,
           <<"n", "a", "t", "u", "u", "r", "s", "t", "e", "e", "n">> >>) @@
    (<<"g", "i", "p", "s">> :>
        << <<"g", "i", "p", "s">>,
           <<"g", "y", "p", "s", "u", "m">>,
           <<"g", "y", "p", "r", "o", "c">>,
           <<"f", "e", "r", "m", "a", "c", "e", "l", "l">> >>) @@
    (<<"g", "l", "a", "s">> :>
        << <<"g", "l", "a", "s">>,
           <<"g", "l", "a", "s", "s">>,
           <<"b", "e", "g", "l", "a", "z", "i", "n", "g">> >>) @@
    (<<"f", "o", "l", "i", "e">> :>
        << <<"f", "o", "l", "i", "e">>,
           <<"d", "a", "m", "p", "r", "e", "m", "m", "e", "n", "d">>,
           <<"d", "a", "m", "p", "o", "p", "e", "n">>,
           <<"m", "e", "m", "b", "r", "a", "a", "n">>,
           <<"b", "a", "r", "r", "i", "e", "r">> >>) @@
    (<<"l", "u", "c", "h", "t">> :>
        << <<"l", "u", "c", "h", "t">>,
           <<"a", "i", "r">>,
           <<"s", "p", "o", "u", "w">>,
           <<"c", "a", "v", "i", "t", "y">> >>) @@
    (<<"k", "u", "n", "s", "t", "s", "t", "o", "f">> :>
        << <<"k", "u", "n", "s", "t", "s", "t", "o", "f">>,
           <<"p", "l", "a", "s", "t", "i", "c">>,
           <<"p", "v", "c">>,
           <<"p", "e">>,
           <<"h", "d", "p", "e">>,
           <<"l", "d", "p", "e">> >>) @@
    (<<"b", "i", "t", "u", "m", "e", "n">> :>
        << <<"b", "i", "t", "u", "m", "e", "n">>,
           <<"d", "a", "k", "b", "e", "d", "e", "k", "k", "i", "n", "g">>,
           <<"r", "o", "o", "f", "i", "n", "g">> >>) @@
    (<<"v", "e", "r", "f">> :>
        << <<"v", "e", "r", "f">>,
           <<"p", "a", "i", "n", "t">>,
           <<"c", "o", "a", "t", "i", "n", "g">>,
           <<"l", "a", "t", "e", "x">> >>) @@
    (<<"t", "e", "g", "e", "l", "s">> :>
        << <<"t", "e", "g", "e", "l">>,
           <<"t", "i", "l", "e">>,
           <<"k", "e", "r", "a", "m", "i", "s", "c", "h">>,
           <<"c", "e", "r", "a", "m", "i", "c">> >>) @@
    (<<"m", "o", "r", "t", "e", "l">> :>
        << <<"m", "o", "r", "t", "e", "l">>,
           <<"m", "o", "r", "t", "a", "r">>,
           <<"v", "o", "e", "g">>,
           <<"s", "p", "e", "c", "i", "e">> >>)

\* s.startswith(k)
StartsWith(s, k) == Len(k) <= Len(s) /\ SubSeq(s, 1, Len(k)) = k

\* k in s, for strings
Contains(s, k) == \E i \in 0..(Len(s) - Len(k)) : SubSeq(s, i + 1, i + Len(k)) = k

\* MATERIAAL_KEYWORDS.get(naakt_naam.lower(), [naakt_naam.lower()])
Keywords(naakt_naam) ==
    IF Lower(naakt_naam) \in DOMAIN MATERIAAL_KEYWORDS
    THEN MATERIAAL_KEYWORDS[Lower(naakt_naam)]
    ELSE <<Lower(naakt_naam)>>

\* What one keyword adds to the score of a material name.
KeywordScore(mat_name, keyword) ==
    IF Contains(mat_name, keyword)
    THEN IF mat_name = keyword THEN 10
         ELSE IF StartsWith(mat_name, keyword) THEN 5
         ELSE 2
    ELSE 0

\* The inner loop: score += ... for keyword in keywords
RECURSIVE Score(_, _)
Score(mat_name, keywords) ==
    IF keywords = <<>> THEN 0
    ELSE KeywordScore(mat_name, Head(keywords)) + Score(mat_name, Tail(keywords))

\* Mutant of BestMatch: a later candidate with an equal score replaces the best.
RECURSIVE BestMatch_LastBest(_, _, _)
BestMatch_LastBest(mats, keywords, best) ==
    IF mats = <<>> THEN best
    ELSE LET score == Score(Lower(Head(mats).Name), keywords)
         IN BestMatch_LastBest(Tail(mats), keywords,
                               IF score > 0 /\ score >= best.best_score
                               THEN [best_match |-> <<Head(mats)>>, best_score |-> score]
                               ELSE best)

\* The outer loop over the materials, carrying best_match and best_score.
RECURSIVE BestMatch(_, _, _)
BestMatch(mats, keywords, best) ==
    IF mats = <<>> THEN best
    ELSE LET score == Score(Lower(Head(mats).Name), keywords)
         IN BestMatch(Tail(mats), keywords,
                      IF score > best.best_score
                      THEN [best_match |-> <<Head(mats)>>, best_score |-> score]
                      ELSE best)

\* Mutant of find_closest_material: no fallback to the first material.
find_closest_material_NoFallback(mats, naakt_naam) ==
    IF mats = <<>> THEN NoSel
    ELSE BestMatch(mats, Keywords(naakt_naam),
                   [best_match |-> NoSel, best_score |-> 0]).best_match

\* find_closest_material(naakt_naam) on the materials the collector returns.
find_closest_material(mats, naakt_naam) ==
    IF mats = <<>> THEN NoSel
    ELSE LET best == BestMatch(mats, Keywords(naakt_naam),
                               [best_match |-> NoSel, best_score |-> 0])
         IN IF best.best_match = NoSel THEN <<mats[1]>> ELSE best.best_match

\* A Material element: its Name, the name of its appearance asset (NoSel:
\* InvalidElementId) and where its patterns and colors come from.
Material(name, asset, look) == [Name |-> name, asset |-> asset, look |-> look]

\* A material of the host document, with no appearance asset.
Plain(name) == Material(name, NoSel, "host")

HOUT == <<"h", "o", "u", "t">>
METAAL == <<"m", "e", "t", "a", "a", "l">>

\* Names of materials a host document holds.
MaterialNames ==
    { <<"H", "o", "u", "t">>,
      <<"H", "o", "u", "t", "e", "n", " ", "k", "o", "z", "i", "j", "n">>,
      <<"S", "t", "a", "a", "l">>,
      <<"A", "l", "u", "m", "i", "n", "i", "u", "m">>,
      <<"E", "i", "k", "e", "n">> }

\* Most candidates find_closest_material is tried on.
MaxCandidates == 3

\* The lists of up to n distinct elements of S.
ListsOf(S, n) ==
    UNION { { l \in [1..k -> S] : \A i, j \in 1..k : i # j => l[i] # l[j] } : k \in 0..n }

\* What get_all_materials() returns: the materials of the document, in its order.
CandidateLists == ListsOf({ Plain(n) : n \in MaterialNames }, MaxCandidates)

\* Names find_closest_material is asked for: in the table, unknown, with a capital.
MatchNames ==
    { HOUT, <<"H", "o", "u", "t">>, METAAL, BETON, <<"a">>, <<"s", "t", "a", "a", "l">> }

NoStore == [namen |-> MissingFile, kenmerken |-> MissingFile, toepassingen |-> MissingFile]

InitMatch ==
    /\ StoreInit(NoStore)
    /\ dictOrder = << <<"a">>, <<"b">> >>
    /\ UiIdle
    /\ LogIdle
    /\ materials \in CandidateLists
    /\ assets = <<>>
    /\ txn = "none"
    /\ msg = "none"
    /\ match = NoSel
    /\ query = NoSel
    /\ calls = <<>>

FindClosest(naakt_naam) ==
    /\ match' = find_closest_material(materials, naakt_naam)
    /\ query' = <<naakt_naam>>
    /\ UNCHANGED <<materials, assets, txn, msg, calls, storeVars, disk, dictOrder,
                   ghostVars, uiVars, logVars>>

NextMatch == \E naakt_naam \in MatchNames : FindClosest(naakt_naam)

SpecMatch == InitMatch /\ [][NextMatch]_vars

----------------------------------------------------------------------------
(* Creating a material in the host document (_on_create) *)

\* Mutant of material_exists: only the first material is compared.
material_exists_FirstOnly(mats, name) == mats # <<>> /\ mats[1].Name = name

\* Mutant of material_exists: no material is ever found.
material_exists_Never(mats, name) == FALSE

\* material_exists(name): exact comparison with the Name of every material.
material_exists(mats, name) == \E i \in 1..Len(mats) : mats[i].Name = name

\* The calls of duplicate_material and _apply_patterns that can raise, and
\* Material.Duplicate returning nothing.
Faults == { "none", "collector", "duplicate", "duplicate_none", "asset_id", "asset", "patterns" }

\* Mutant of duplicate_material: a failing asset duplication is fatal.
duplicate_material_AssetFatal(mats, assts, source, new_name, fault) ==
    LET None == [mats |-> mats, assets |-> assts, new_mat |-> NoSel]
    IN IF source = NoSel THEN None
       ELSE IF fault = "collector" THEN None
       ELSE IF material_exists(mats, new_name) THEN None
       ELSE IF fault \in {"duplicate", "duplicate_none"} THEN None
       ELSE LET new_mat == Material(new_name, source[1].asset, source[1].look)
                mats1 == Append(mats, new_mat)
            IN IF fault \in {"asset_id", "asset"}
               THEN [mats |-> mats1, assets |-> assts, new_mat |-> NoSel]
               ELSE IF new_mat.asset = NoSel
               THEN [mats |-> mats1, assets |-> assts, new_mat |-> <<new_mat>>]
               ELSE LET own == Material(new_name, <<new_name>>, source[1].look)
                    IN [mats |-> Append(mats, own),
                        assets |-> Append(assts, new_name),
                        new_mat |-> <<own>>]

\* duplicate_material(source_material, new_name) on the document inside the open
\* transaction.  Every exception but the one of the asset duplication is caught
\* by the outer except clause, which returns None (NoSel).
duplicate_material(mats, assts, source, new_name, fault) ==
    LET None == [mats |-> mats, assets |-> assts, new_mat |-> NoSel]
    IN IF source = NoSel THEN None
       ELSE IF fault = "collector" THEN None
       ELSE IF material_exists(mats, new_name) THEN None
       ELSE IF fault \in {"duplicate", "duplicate_none"} THEN None
       ELSE LET new_mat == Material(new_name, source[1].asset, source[1].look)
                mats1 == Append(mats, new_mat)
            IN IF fault = "asset_id"
               THEN [mats |-> mats1, assets |-> assts, new_mat |-> NoSel]
               ELSE IF new_mat.asset = NoSel \/ fault = "asset"
               THEN [mats |-> mats1, assets |-> assts, new_mat |-> <<new_mat>>]
               ELSE LET own == Material(new_name, <<new_name>>, source[1].look)
                    IN [mats |-> Append(mats, own),
                        assets |-> Append(assts, new_name),
                        new_mat |-> <<own>>]

\* _apply_patterns(material) on the last material of the document: an exception
\* is logged as a warning and not raised again; the attributes set before it stay.
apply_patterns(mats, fault) ==
    [mats EXCEPT ![Len(mats)].look = IF fault = "patterns" THEN "partial" ELSE "applied"]

\* Transaction.Commit(): the document keeps the changes made since Start().
Commit(start, work) == work

\* Mutant of RollBack: the changes made since Start() stay.
RollBack_Keeps(start, work) == work

\* Transaction.RollBack(): the document is as it was at Start().
RollBack(start, work) == start

\* Mutant of find_source: a missing source is not noticed.
find_source_Unchecked(mats, naakt_naam) == "proceed"

\* The test "if not source_mat" of _on_create on the result of the search.
find_source(mats, naakt_naam) ==
    IF find_closest_material(mats, naakt_naam) = NoSel THEN "no_source" ELSE "proceed"

\* A host document: its materials and its appearance assets.
Doc(mats, assts) == [mats |-> mats, assets |-> assts]

\* What _on_create leaves behind: the document, the fate of the transaction,
\* the message shown, and the source material searched for.
Outcome(doc, t, m, q, src) == [doc |-> doc, txn |-> t, msg |-> m, query |-> q, match |-> src]

\* An outcome together with the calls made from t.Start() on, in order.
Traced(outcome, trace) == [doc |-> outcome.doc, txn |-> outcome.txn, msg |-> outcome.msg,
                           query |-> outcome.query, match |-> outcome.match,
                           calls |-> trace]

\* Mutant of EndTransaction: the transaction is committed whatever was returned.
EndTransaction_AlwaysCommit(new_mat) == "Commit"

\* The test "if new_mat" of _on_create: which call ends the transaction.
EndTransaction(new_mat) == IF new_mat # NoSel THEN "Commit" ELSE "RollBack"

\* _on_create, with the user's answer to the confirmation and the call that raises.
on_create(mats, assts, preview, naamSel, answer, fault) ==
    LET doc == Doc(mats, assts)
        new_name == get_generated_name(preview)
    IN IF new_name = NoSel
       THEN Traced(Outcome(doc, "none", "invalid_name", NoSel, NoSel), <<>>)
       ELSE IF material_exists(mats, new_name[1])
       THEN Traced(Outcome(doc, "none", "exists", NoSel, NoSel), <<>>)
       ELSE IF naamSel = NoSel
       THEN Traced(Outcome(doc, "none", "raised", NoSel, NoSel), <<>>)
       ELSE LET source_mat == find_closest_material(mats, naamSel[1])
            IN IF find_source(mats, naamSel[1]) = "no_source"
               THEN Traced(Outcome(doc, "none", "no_source", naamSel, source_mat), <<>>)
               ELSE IF answer # "Yes"
               THEN Traced(Outcome(doc, "none", "declined", naamSel, source_mat), <<>>)
               ELSE LET d == duplicate_material(mats, assts, source_mat, new_name[1], fault)
                        returned == IF d.new_mat # NoSel THEN "duplicate_material:new"
                                    ELSE "duplicate_material:None"
                    IN IF EndTransaction(d.new_mat) = "Commit"
                       THEN Traced(Outcome(Commit(doc, Doc(apply_patterns(d.mats, fault), d.assets)),
                                           "committed", "created", naamSel, source_mat),
                                   <<"Start", returned, "_apply_patterns", "Commit">>)
                       ELSE Traced(Outcome(RollBack(doc, Doc(d.mats, d.assets)),
                                           "rolledback", "failed", naamSel, source_mat),
                                   <<"Start", returned, "RollBack">>)

\* Most materials a host document holds.
MaxMaterials == 3

BETON_MAT == <<"B", "e", "t", "o", "n">>
STAAL_MAT == <<"S", "t", "a", "a", "l">>

\* Host documents the window is opened on: << materials, appearance assets >>.
HostDocs ==
    { Doc(<<>>, <<>>),
      Doc(<< Plain(STAAL_MAT), Material(BETON_MAT, <<BETON_MAT>>, "host") >>, <<BETON_MAT>>),
      Doc(<< Material(BETON_MAT, <<BETON_MAT>>, "host"),
             Plain(Join(<<BETON, GENERIEK, WAND>>)) >>, <<BETON_MAT>>),
      Doc(<< Plain(Join(<< <<"a">>, GENERIEK, NTB >>)) >>, <<>>),
      Doc(<< Plain(STAAL_MAT) >>, <<>>) }

InitCreate ==
    /\ \E d \in UiDisks : StoreInit(d)
    /\ dictOrder = << <<"a">>, <<"b">> >>
    /\ WindowInit
    /\ LogIdle
    /\ \E h \in HostDocs : materials = h.mats /\ assets = h.assets
    /\ txn = "none"
    /\ msg = "none"
    /\ match = NoSel
    /\ query = NoSel
    /\ calls = <<>>

\* The user presses the create button.
OnCreate(answer, fault) ==
    LET r == on_create(materials, assets, txt_preview, cmb_naam, answer, fault)
    IN /\ Len(r.doc.mats) <= MaxMaterials
       /\ materials' = r.doc.mats
       /\ assets' = r.doc.assets
       /\ txn' = r.txn
       /\ msg' = r.msg
       /\ match' = r.match
       /\ query' = r.query
       /\ calls' = r.calls
       /\ UNCHANGED <<storeVars, disk, dictOrder, ghostVars, uiVars, logVars>>

NextCreate ==
    \/ \E naam \in {BETON, <<"a">>, <<"b">>} : OnNaamChanged(naam)
    \/ \E toepassing \in {GENERIEK, NTB, WAND} : OnToepassingChanged(toepassing)
    \/ \E answer \in {"Yes", "No"}, fault \in Faults : OnCreate(answer, fault)

SpecCreate == InitCreate /\ [][NextCreate]_vars

----------------------------------------------------------------------------
(* The store when a file cannot be written *)

\* _write_json when it raises: open(filepath, 'w') failed and the file is as it
\* was ("open"), or f.write failed after the file was truncated ("write").
WriteJsonFails(old, how) == IF how = "open" THEN old ELSE MalformedFile

\* save_namen, save_kenmerken or save_toepassingen, by the file it writes.
SaveFile(m, d, file) ==
    IF file = "namen" THEN SaveNamen(m, d)
    ELSE IF file = "kenmerken" THEN SaveKenmerken(m, d)
    ELSE SaveToepassingen(m, d)

\* Mutant of Saves: the exception of a failing write is swallowed.
RECURSIVE Saves_Swallow(_, _, _, _, _)
Saves_Swallow(m, d, files, failing, how) ==
    IF files = <<>> THEN [d |-> d, raised |-> FALSE]
    ELSE IF Head(files) = failing
    THEN Saves_Swallow(m, [d EXCEPT ![failing] = WriteJsonFails(@, how)],
                       Tail(files), failing, how)
    ELSE Saves_Swallow(m, SaveFile(m, d, Head(files)), Tail(files), failing, how)

\* The save calls of an add, in order; the write of file `failing` raises
\* ("none": no write fails).  The exception is not caught: later saves are not run.
RECURSIVE Saves(_, _, _, _, _)
Saves(m, d, files, failing, how) ==
    IF files = <<>> THEN [d |-> d, raised |-> FALSE]
    ELSE IF Head(files) = failing
    THEN [d |-> [d EXCEPT ![failing] = WriteJsonFails(@, how)], raised |-> TRUE]
    ELSE Saves(m, SaveFile(m, d, Head(files)), Tail(files), failing, how)

\* An add whose saves are `files`, given what it does when every write succeeds:
\* the in-memory change is made before the first save.
WithSaves(ok, d, files, failing, how) ==
    IF ok.ret # "True" THEN ok
    ELSE LET s == Saves(ok.m, d, files, failing, how)
         IN [m |-> ok.m, d |-> s.d, ret |-> IF s.raised THEN "raised" ELSE "True"]

add_naam_io(m, d, raw, failing, how) ==
    WithSaves(add_naam(m, d, raw), d, <<"namen", "kenmerken", "toepassingen">>, failing, how)

add_kenmerk_io(m, d, naam, raw, failing, how) ==
    WithSaves(add_kenmerk(m, d, naam, raw), d, <<"kenmerken">>, failing, how)

add_toepassing_io(m, d, naam, raw, failing, how) ==
    WithSaves(add_toepassing(m, d, naam, raw), d, <<"toepassingen">>, failing, how)

\* The file whose write fails, and how.
FailingFiles == { "none", "namen", "kenmerken", "toepassingen" }
FailureKinds == { "open", "write" }

\* Arguments of the adds tried with failing writes.
WriteNaamInputs == { <<" ", "A", " ">>, <<"b">> }
WriteNaamArgs == { <<"a">> }
WriteKenmerkInput == <<"A", " ">>
WriteToepassingInput == <<" ", "A">>

WriteDisks ==
    { NoStore,
      [namen |-> JsonFile(NamenDoc(<< <<"a">> >>)),
       kenmerken |-> JsonFile(KenmerkenDoc(CleanTable)),
       toepassingen |-> JsonFile(ToepassingenDoc(CleanTable))] }

InitWrite ==
    /\ \E d \in WriteDisks : StoreInit(d)
    /\ dictOrder = << <<"a">>, <<"b">> >>
    /\ UiIdle
    /\ HostIdle
    /\ LogIdle

StoreStep(r, name) ==
    /\ namen' = r.m.namen
    /\ kenmerken_per_naam' = r.m.kenmerken
    /\ toepassingen_per_naam' = r.m.toepassingen
    /\ disk' = r.d
    /\ op' = name
    /\ ret' = r.ret
    /\ got' = <<>>
    /\ UNCHANGED <<created, dictOrder, uiVars, hostVars, logVars>>

AddNaamIO(raw, failing, how) ==
    /\ WithinBounds(add_naam_io(CurMem, disk, raw, failing, how).m)
    /\ StoreStep(add_naam_io(CurMem, disk, raw, failing, how), "add_naam")

AddKenmerkIO(naam, raw, failing, how) ==
    /\ failing \in {"none", "kenmerken"}
    /\ StoreStep(add_kenmerk_io(CurMem, disk, naam, raw, failing, how), "add_kenmerk")

AddToepassingIO(naam, raw, failing, how) ==
    /\ failing \in {"none", "toepassingen"}
    /\ StoreStep(add_toepassing_io(CurMem, disk, naam, raw, failing, how), "add_toepassing")

NextWrite ==
    \/ \E raw \in WriteNaamInputs, failing \in FailingFiles, how \in FailureKinds :
          AddNaamIO(raw, failing, how)
    \/ \E naam \in WriteNaamArgs, failing \in FailingFiles, how \in FailureKinds :
          AddKenmerkIO(naam, WriteKenmerkInput, failing, how)
    \/ \E naam \in WriteNaamArgs, failing \in FailingFiles, how \in FailureKinds :
          AddToepassingIO(naam, WriteToepassingInput, failing, how)

SpecWrite == InitWrite /\ [][NextWrite]_vars

----------------------------------------------------------------------------
(* Log files (class BMLogger) *)

MAX_LOGS_PER_TOOL == 10

\* '.log'
LogSuffix == <<".", "l", "o", "g">>

Digit(n) ==
    CASE n = 0 -> "0" [] n = 1 -> "1" [] n = 2 -> "2" [] n = 3 -> "3" [] n = 4 -> "4"
      [] n = 5 -> "5" [] n = 6 -> "6" [] n = 7 -> "7" [] n = 8 -> "8" [] n = 9 -> "9"

\* datetime.now().strftime(...): the seconds, in two digits.
Timestamp(t) == <<Digit((t \div 10) % 10), Digit(t % 10)>>

\* _create_log_file: "{}_{}.log".format(self.tool_name, timestamp)
LogFileName(tool_name, t) == tool_name \o <<"_">> \o Timestamp(t) \o LogSuffix

\* s.endswith(k)
EndsWith(s, k) == Len(k) <= Len(s) /\ SubSeq(s, Len(s) - Len(k) + 1, Len(s)) = k

\* f.startswith(pattern) and f.endswith('.log'), pattern = tool_name + '_'
MatchesPattern(tool_name, f) ==
    StartsWith(f, tool_name \o <<"_">>) /\ EndsWith(f, LogSuffix)

\* A file of the log directory: its name, its modification time, whether another
\* process holds it open (os.remove then raises), and the tool that wrote it.
LogFile(tool_name, t, locked) ==
    [name |-> LogFileName(tool_name, t), mtime |-> t, locked |-> locked, tool |-> tool_name]

\* logs.sort(key=lambda x: x[1]): ascending modification time.
RECURSIVE SortByMtime(_)
SortByMtime(S) ==
    IF S = {} THEN <<>>
    ELSE LET f == CHOOSE f \in S : \A g \in S : f.mtime <= g.mtime
         IN <<f>> \o SortByMtime(S \ {f})

\* while len(logs) >= MAX_LOGS_PER_TOOL: remove logs.pop(0); a failing
\* os.remove is passed over.
RECURSIVE RemoveOldest(_, _)
RemoveOldest(dir, logs) ==
    IF Len(logs) >= MAX_LOGS_PER_TOOL
    THEN RemoveOldest(IF Head(logs).locked THEN dir ELSE dir \ {Head(logs)}, Tail(logs))
    ELSE dir

\* _cleanup_old_logs
cleanup_old_logs(dir, tool_name) ==
    RemoveOldest(dir, SortByMtime({ f \in dir : MatchesPattern(tool_name, f.name) }))

\* Names of the tools that log into the directory.
Tools == { <<"a">>, <<"a", "_", "b">>, <<"b">> }

\* Last second at which a logger is constructed.
MaxClock == 16

OldLogs(tool_name, times) == { LogFile(tool_name, t, FALSE) : t \in times }

\* Log directories found at start.
LogDirs ==
    { {},
      OldLogs(<<"b">>, 1..9),
      OldLogs(<<"b">>, 1..12),
      OldLogs(<<"a">>, 1..5) \cup OldLogs(<<"a", "_", "b">>, 6..10),
      OldLogs(<<"a", "_", "b">>, 1..3) \cup OldLogs(<<"a">>, 4..11),
      {LogFile(<<"b">>, 1, TRUE)} \cup OldLogs(<<"b">>, 2..10) }

InitLog ==
    /\ StoreInit(NoStore)
    /\ dictOrder = << <<"a">>, <<"b">> >>
    /\ UiIdle
    /\ HostIdle
    /\ logdir \in LogDirs
    /\ clock = 12

\* BMLogger(tool_name), one second after the last one: the file name is chosen,
\* old logs are removed, and the header is written to the new file.
NewLogger(tool_name) ==
    /\ clock < MaxClock
    /\ clock' = clock + 1
    /\ logdir' = cleanup_old_logs(logdir, tool_name) \cup {LogFile(tool_name, clock', FALSE)}
    /\ UNCHANGED <<storeVars, disk, dictOrder, ghostVars, uiVars, hostVars>>

NextLog == \E tool_name \in Tools : NewLogger(tool_name)

SpecLog == InitLog /\ [][NextLog]_vars

----------------------------------------------------------------------------
(* Vocabulary of the properties, stated without the operators of the model *)

\* s with its surrounding blanks removed and its capitals replaced by small letters.
TrimLower(s) ==
    LET idx == {i \in 1..Len(s) : s[i] # " "}
        lo == CHOOSE i \in idx : \A j \in idx : i <= j
        hi == CHOOSE i \in idx : \A j \in idx : j <= i
        small(c) == IF c = "A" THEN "a" ELSE IF c = "B" THEN "b" ELSE IF c = "N" THEN "n" ELSE c
    IN IF idx = {} THEN <<>> ELSE [i \in 1..(hi - lo + 1) |-> small(s[lo + i - 1])]

\* The two strings are equal up to letter case and surrounding blanks.
SameUpToCase(s, t) == TrimLower(s) = TrimLower(t)

NoDuplicates(lst) == \A i, j \in 1..Len(lst) : lst[i] = lst[j] => i = j

Ascending(lst) == \A i \in 1..(Len(lst) - 1) : StrLess(lst[i], lst[i + 1])

\* The two lists hold the same entries, each as often.
SameEntries(l1, l2) ==
    /\ Len(l1) = Len(l2)
    /\ \A x \in Range(l1) \cup Range(l2) :
          Cardinality({i \in 1..Len(l1) : l1[i] = x}) = Cardinality({i \in 1..Len(l2) : l2[i] = x})

\* The list holds exactly generiek and ntb.
ExactlyDefaults(lst) == Len(lst) = 2 /\ Range(lst) = {GENERIEK, NTB}

----------------------------------------------------------------------------
(* C1 *)

\* C1: add_naam(N), for N non-empty after trim+lowercase and not yet in the
\* store, returns True and leaves exactly {generiek, ntb} in the attribute and
\* in the application table of the normalized N; a following add_naam(N') with
\* N' equal to N up to case and surrounding blanks returns False and changes
\* nothing (store and files).
C1_AddNaamThenDuplicate ==
    [][\A raw \in NaamInputs :
          (AddNaam(raw) /\ TrimLower(raw) # <<>> /\ TrimLower(raw) \notin Range(namen))
          => /\ ret' = "True"
             /\ TrimLower(raw) \in DOMAIN kenmerken_per_naam'
             /\ TrimLower(raw) \in DOMAIN toepassingen_per_naam'
             /\ ExactlyDefaults(kenmerken_per_naam'[TrimLower(raw)])
             /\ ExactlyDefaults(toepassingen_per_naam'[TrimLower(raw)])
             /\ \A raw2 \in NaamInputs :
                   SameUpToCase(raw2, raw)
                   => add_naam(CurMem', disk', raw2) = [m |-> CurMem', d |-> disk', ret |-> "False"]
      ]_vars

\* C1 witness: add_naam has just returned True for a name entered with a capital
\* or blanks around it, and the new name carries the two default lists.
C1_Witness ==
    /\ op = "add_naam" /\ ret = "True"
    /\ \E raw \in NaamInputs :
          /\ raw # TrimLower(raw)
          /\ namen # <<>> /\ namen[Len(namen)] = TrimLower(raw)
          /\ kenmerken_per_naam[TrimLower(raw)] = DefaultEntries
          /\ disk.namen.kind = "json"

----------------------------------------------------------------------------
(* C2 *)

\* C2: in every reachable state the name list holds no two entries equal
\* ignoring case, and every entry is trimmed and lowercase.
C2_NamesUniqueLowercase ==
    /\ \A i, j \in 1..Len(namen) : SameUpToCase(namen[i], namen[j]) => i = j
    /\ \A i \in 1..Len(namen) : namen[i] = TrimLower(namen[i])

----------------------------------------------------------------------------
(* C3 *)

\* C3: for every name created by add_naam, the attribute list and the
\* application list exist, are non-empty and hold no duplicate, whatever add
\* operations followed.
C3_CreatedListsNonEmptyUnique ==
    \A n \in created :
        /\ n \in DOMAIN kenmerken_per_naam /\ n \in DOMAIN toepassingen_per_naam
        /\ kenmerken_per_naam[n] # <<>> /\ NoDuplicates(kenmerken_per_naam[n])
        /\ toepassingen_per_naam[n] # <<>> /\ NoDuplicates(toepassingen_per_naam[n])

\* C3 witness: a created name whose attribute list has grown beyond the defaults,
\* after an add that was refused.
C3_Witness ==
    /\ op = "add_kenmerk" /\ ret = "False"
    /\ \E n \in created : Len(kenmerken_per_naam[n]) > 2

----------------------------------------------------------------------------
(* C4 *)

\* The add left the store and the three files as they were and returned False.
Refused == ret' = "False" /\ UNCHANGED <<storeVars, disk>>

\* raw, normalized, is an entry of the list the table holds for naam.
Present(table, naam, raw) == naam \in DOMAIN table /\ TrimLower(raw) \in Range(table[naam])

\* C4 as stated: add_kenmerk / add_toepassing return False and leave the store
\* and all three files unchanged whenever name is not in the name set, or raw
\* is empty after trim+lowercase, or the normalized raw is already present.
C4_RefusedWhenNotInNameSet ==
    [][/\ \A naam \in NaamArgs, raw \in KenmerkInputs :
             (/\ AddKenmerk(naam, raw)
              /\ \/ naam \notin Range(namen)
                 \/ TrimLower(raw) = <<>>
                 \/ Present(kenmerken_per_naam, naam, raw))
             => Refused
       /\ \A naam \in NaamArgs, raw \in ToepassingInputs :
             (/\ AddToepassing(naam, raw)
              /\ \/ naam \notin Range(namen)
                 \/ TrimLower(raw) = <<>>
                 \/ Present(toepassingen_per_naam, naam, raw))
             => Refused
      ]_vars

\* C4 amended: add_kenmerk / add_toepassing return False and leave the store
\* and all three files unchanged whenever name is not a key of the attribute
\* table (for add_toepassing: of the application table), or raw is empty after
\* trim+lowercase, or the normalized raw is already present for that name.
C4_RefusedWhenNotAKey ==
    [][/\ \A naam \in NaamArgs, raw \in KenmerkInputs :
             (/\ AddKenmerk(naam, raw)
              /\ \/ naam \notin DOMAIN kenmerken_per_naam
                 \/ TrimLower(raw) = <<>>
                 \/ Present(kenmerken_per_naam, naam, raw))
             => Refused
       /\ \A naam \in NaamArgs, raw \in ToepassingInputs :
             (/\ AddToepassing(naam, raw)
              /\ \/ naam \notin DOMAIN toepassingen_per_naam
                 \/ TrimLower(raw) = <<>>
                 \/ Present(toepassingen_per_naam, naam, raw))
             => Refused
      ]_vars

\* C4 witness: add_toepassing was refused on a store that has names but no key
\* in the application table (its file was damaged).
C4_Witness ==
    /\ op = "add_toepassing" /\ ret = "False"
    /\ namen # <<>> /\ DOMAIN toepassingen_per_naam = {}
    /\ DOMAIN kenmerken_per_naam # {}

----------------------------------------------------------------------------
(* C5 *)

\* The file is well-formed JSON whose table, under key, has the keys of table,
\* each once, each with the entries of the list in memory.
FileHoldsTable(f, key, table) ==
    /\ f.kind = "json" /\ ~f.bom /\ key \in DOMAIN f.doc
    /\ LET pairs == f.doc[key]
       IN /\ {pairs[i][1] : i \in 1..Len(pairs)} = DOMAIN table
          /\ Len(pairs) = Cardinality(DOMAIN table)
          /\ \A i \in 1..Len(pairs) : SameEntries(pairs[i][2], table[pairs[i][1]])

\* new is old with x appended to the list of naam, and nothing else changed.
OnlyAppended(old, new, naam, x) ==
    /\ naam \in DOMAIN old /\ DOMAIN new = DOMAIN old
    /\ new[naam] = Append(old[naam], x)
    /\ \A k \in DOMAIN old : k # naam => new[k] = old[k]

\* C5: a successful add_kenmerk adds exactly the normalized value to the
\* attribute list of name, rewrites the attribute file so that it holds the
\* in-memory attribute table, and leaves the name list, the application table,
\* the names file and the applications file unchanged; symmetrically for
\* add_toepassing.
C5_SuccessfulAddFrame ==
    [][/\ \A naam \in NaamArgs, raw \in KenmerkInputs :
             (AddKenmerk(naam, raw) /\ ret' = "True")
             => /\ OnlyAppended(kenmerken_per_naam, kenmerken_per_naam', naam, TrimLower(raw))
                /\ FileHoldsTable(disk'.kenmerken, "kenmerken_per_naam", kenmerken_per_naam')
                /\ UNCHANGED <<namen, toepassingen_per_naam>>
                /\ disk'.namen = disk.namen /\ disk'.toepassingen = disk.toepassingen
       /\ \A naam \in NaamArgs, raw \in ToepassingInputs :
             (AddToepassing(naam, raw) /\ ret' = "True")
             => /\ OnlyAppended(toepassingen_per_naam, toepassingen_per_naam', naam, TrimLower(raw))
                /\ FileHoldsTable(disk'.toepassingen, "toepassingen_per_naam", toepassingen_per_naam')
                /\ UNCHANGED <<namen, kenmerken_per_naam>>
                /\ disk'.namen = disk.namen /\ disk'.kenmerken = disk.kenmerken
      ]_vars

\* C5 witness: add_kenmerk has just succeeded while the names file is missing
\* and the applications file still holds what it held before.
C5_Witness ==
    /\ op = "add_kenmerk" /\ ret = "True"
    /\ disk.namen.kind = "missing"
    /\ \E k \in DOMAIN kenmerken_per_naam : Len(kenmerken_per_naam[k]) = 3

----------------------------------------------------------------------------
(* C6 *)

NonDescending(lst) == \A i \in 1..(Len(lst) - 1) : ~StrLess(lst[i + 1], lst[i])

\* result is what a get on table returns for naam.
SortedCopyOf(result, table, naam) ==
    IF naam \in DOMAIN table
    THEN NonDescending(result) /\ SameEntries(result, table[naam])
    ELSE result = <<>>

\* C6: get_kenmerken / get_toepassingen return a list and modify neither the
\* store nor the files: the empty list for an unknown name, for a known name an
\* ascending list holding exactly the stored entries, and the stored list keeps
\* its own order and contents.
C6_GetReturnsSortedCopy ==
    [][/\ \A naam \in NaamArgs :
             GetKenmerken(naam)
             => /\ ret' = "list"
                /\ SortedCopyOf(got', kenmerken_per_naam, naam)
                /\ UNCHANGED <<storeVars, disk>>
       /\ \A naam \in NaamArgs :
             GetToepassingen(naam)
             => /\ ret' = "list"
                /\ SortedCopyOf(got', toepassingen_per_naam, naam)
                /\ UNCHANGED <<storeVars, disk>>
      ]_vars

\* C6 witness: get_kenmerken has returned the entries of a stored list in
\* another order than the stored one.
C6_Witness ==
    /\ op = "get_kenmerken" /\ ret = "list"
    /\ \E k \in DOMAIN kenmerken_per_naam :
          SameEntries(got, kenmerken_per_naam[k]) /\ got # kenmerken_per_naam[k]

----------------------------------------------------------------------------
(* C7 *)

Unreadable(f) == f.kind \in {"missing", "malformed"}

\* C7: constructing the store (load_data) does not raise; a table whose file is
\* missing or malformed is empty afterwards, and the store accepts a new name.
C7_LoadNeverRaises ==
    op = "__init__"
    => /\ ret = "none"
       /\ Unreadable(disk.namen) => namen = <<>>
       /\ Unreadable(disk.kenmerken) => DOMAIN kenmerken_per_naam = {}
       /\ Unreadable(disk.toepassingen) => DOMAIN toepassingen_per_naam = {}
       /\ <<"b">> \notin Range(namen) => add_naam(CurMem, disk, <<"b">>).ret = "True"

\* C7 witness: the tool was started again, after an attribute was added, on a
\* data folder whose applications file is damaged.
C7_Witness ==
    /\ op = "__init__" /\ ret = "none"
    /\ disk.toepassingen.kind = "malformed"
    /\ DOMAIN toepassingen_per_naam = {}
    /\ \E k \in DOMAIN kenmerken_per_naam : Len(kenmerken_per_naam[k]) = 3

----------------------------------------------------------------------------
(* C8 *)

\* The table the file holds under key is written with ascending keys and
\* ascending lists.
TableWrittenSorted(f, key) ==
    /\ f.kind = "json" /\ key \in DOMAIN f.doc
    /\ LET pairs == f.doc[key]
       IN /\ Ascending([i \in 1..Len(pairs) |-> pairs[i][1]])
          /\ \A i \in 1..Len(pairs) : NonDescending(pairs[i][2])

\* C8: every save writes its table in sorted order: the name list ascending, the
\* keys of a table ascending, each per-name list ascending.
C8_SavesWriteSorted ==
    /\ (op = "add_naam" /\ ret = "True")
       => /\ disk.namen.kind = "json" /\ NonDescending(disk.namen.doc.namen)
          /\ TableWrittenSorted(disk.kenmerken, "kenmerken_per_naam")
          /\ TableWrittenSorted(disk.toepassingen, "toepassingen_per_naam")
    /\ (op = "add_kenmerk" /\ ret = "True")
       => TableWrittenSorted(disk.kenmerken, "kenmerken_per_naam")
    /\ (op = "add_toepassing" /\ ret = "True")
       => TableWrittenSorted(disk.toepassingen, "toepassingen_per_naam")

----------------------------------------------------------------------------
(* C9 *)

\* The two tables have the same keys and, per key, the same set of entries.
SameTable(t1, t2) ==
    /\ DOMAIN t1 = DOMAIN t2
    /\ \A k \in DOMAIN t1 : Range(t1[k]) = Range(t2[k])

\* C9: a table that has just been saved (save_namen, save_kenmerken,
\* save_toepassingen, as called by the adds) and is then loaded by load_data into
\* a new store is set-equal to the one that was saved.
C9_SaveLoadRoundTrip ==
    /\ (op = "add_naam" /\ ret = "True")
       => /\ Range(NewStore(disk).m.namen) = Range(namen)
          /\ SameTable(NewStore(disk).m.kenmerken, kenmerken_per_naam)
          /\ SameTable(NewStore(disk).m.toepassingen, toepassingen_per_naam)
    /\ (op = "add_kenmerk" /\ ret = "True")
       => SameTable(NewStore(disk).m.kenmerken, kenmerken_per_naam)
    /\ (op = "add_toepassing" /\ ret = "True")
       => SameTable(NewStore(disk).m.toepassingen, toepassingen_per_naam)

\* C9 witness: two names were added, the second sorting before the first, and an
\* attribute that sorts before the defaults: what a load reads back is ordered
\* otherwise than the store.
C9_Witness ==
    /\ op = "add_kenmerk" /\ ret = "True"
    /\ Len(namen) = 2 /\ StrLess(namen[2], namen[1])
    /\ NewStore(disk).m.namen # namen
    /\ NewStore(disk).m.kenmerken # kenmerken_per_naam

----------------------------------------------------------------------------
(* C10 *)

\* The free text as it enters the name: trimmed, lowercase, each blank a '_'.
FreeTextSegment(text) ==
    [i \in 1..Len(TrimLower(text)) |->
        IF TrimLower(text)[i] = " " THEN "_" ELSE TrimLower(text)[i]]

\* name_attribute_application, then _freetext when the free text is not empty.
ComposedName(naam, kenmerk, toepassing, text) ==
    naam \o <<"_">> \o kenmerk \o <<"_">> \o toepassing
    \o (IF FreeTextSegment(text) = <<>> THEN <<>> ELSE <<"_">> \o FreeTextSegment(text))

\* C10: with a name, an attribute and an application selected, the preview is
\* name_attribute_application, followed by _freetext only when the free text is
\* non-empty after normalization (trim, lowercase, blanks to '_').
C10_ComposedName ==
    (cmb_naam # NoSel /\ cmb_kenmerk # NoSel /\ cmb_toepassing # NoSel)
    => txt_preview = ComposedName(cmb_naam[1], cmb_kenmerk[1], cmb_toepassing[1], txt_eigen)

\* C10 witness: (beton, generiek, wand, "") shows beton_generiek_wand.
C10_Witness ==
    /\ cmb_naam = <<BETON>> /\ cmb_kenmerk = <<GENERIEK>> /\ cmb_toepassing = <<WAND>>
    /\ txt_eigen = <<>>
    /\ txt_preview = <<"b", "e", "t", "o", "n", "_", "g", "e", "n", "e", "r", "i", "e", "k",
                       "_", "w", "a", "n", "d">>

\* A second C10 case: a free text with blanks and capitals is part of the name.
C10_WitnessFreeText ==
    /\ cmb_naam # NoSel /\ cmb_kenmerk # NoSel /\ cmb_toepassing # NoSel
    /\ txt_eigen = <<"a", " ", " ", "N">>
    /\ SubSeq(txt_preview, Len(txt_preview) - 4, Len(txt_preview)) = <<"_", "a", "_", "_", "n">>

----------------------------------------------------------------------------
(* C11 *)

\* The three required segments are all selected.
AllThreeSelected == cmb_naam # NoSel /\ cmb_kenmerk # NoSel /\ cmb_toepassing # NoSel

\* C11: a generated name is treated as complete (the preview shows a name and
\* _get_generated_name returns it) if and only if a name, an attribute and an
\* application are all selected; free text never makes up for a missing one.
C11_CompleteIffAllSelected ==
    /\ (txt_preview # Placeholder) <=> AllThreeSelected
    /\ (get_generated_name(txt_preview) # NoSel) <=> AllThreeSelected

----------------------------------------------------------------------------
(* C12, C13 *)

\* Points a candidate name c gets for keyword k: 10 when equal, 5 when c starts
\* with k, 2 when k occurs elsewhere in c, 0 otherwise.
Points(c, k) ==
    IF c = k THEN 10
    ELSE IF \E n \in 0..Len(c) : SubSeq(c, 1, n) = k THEN 5
    ELSE IF \E a \in 1..Len(c), b \in 1..Len(c) : SubSeq(c, a, b) = k THEN 2
    ELSE 0

\* The keywords of a name: its row of the static table, or the name itself.
KeywordsOf(name) ==
    LET n == [i \in 1..Len(name) |-> LowerChar(name[i])]
    IN IF n \in DOMAIN MATERIAAL_KEYWORDS THEN MATERIAAL_KEYWORDS[n] ELSE <<n>>

RECURSIVE PointsFrom(_, _, _)
PointsFrom(c, kws, i) ==
    IF i > Len(kws) THEN 0 ELSE Points(c, kws[i]) + PointsFrom(c, kws, i + 1)

\* Total score of candidate cand for name.
TotalScore(cand, name) ==
    PointsFrom([i \in 1..Len(cand.Name) |-> LowerChar(cand.Name[i])], KeywordsOf(name), 1)

SomeScores(cands, name) == \E i \in 1..Len(cands) : TotalScore(cands[i], name) > 0

\* i is the first position of cands holding the maximal score.
FirstMaximum(cands, name, i) ==
    /\ \A j \in 1..Len(cands) : TotalScore(cands[j], name) <= TotalScore(cands[i], name)
    /\ \A j \in 1..(i - 1) : TotalScore(cands[j], name) < TotalScore(cands[i], name)

\* C12: when some candidate scores above zero, find_closest_material returns
\* the first candidate in input order whose summed keyword score (10 equal,
\* 5 prefix, 2 contained, 0 otherwise) is the maximum.
C12_FirstBestScore ==
    [][\A name \in MatchNames :
          (FindClosest(name) /\ SomeScores(materials, name))
          => \E i \in 1..Len(materials) :
                /\ FirstMaximum(materials, name, i)
                /\ match' = <<materials[i]>>]_vars

\* Hout, Houten kozijn, Staal asked for hout: Hout is returned.
C12_Witness ==
    /\ materials = << Plain(<<"H", "o", "u", "t">>), Plain(<<"H", "o", "u", "t", "e", "n", " ", "k", "o", "z", "i", "j", "n">>), Plain(<<"S", "t", "a", "a", "l">>) >>
    /\ query = <<HOUT>>
    /\ match = << Plain(<<"H", "o", "u", "t">>) >>

\* Two candidates share the maximum (Eiken and Hout, 10 each): the first is returned.
C12_WitnessTie ==
    /\ materials = << Plain(<<"S", "t", "a", "a", "l">>), Plain(<<"E", "i", "k", "e", "n">>), Plain(<<"H", "o", "u", "t">>) >>
    /\ query = <<HOUT>>
    /\ match = << Plain(<<"E", "i", "k", "e", "n">>) >>

\* C13: find_closest_material returns None exactly when there is no candidate;
\* with candidates of which none scores above zero it returns the first one,
\* and when some candidate scores above zero the result is one that does.
C13_NoneOnlyWhenEmpty ==
    [][\A name \in MatchNames :
          FindClosest(name)
          => /\ (match' = NoSel) <=> (materials = <<>>)
             /\ (materials # <<>> /\ ~SomeScores(materials, name))
                   => match' = <<materials[1]>>
             /\ SomeScores(materials, name) => TotalScore(match'[1], name) > 0]_vars

\* No candidate at all: None for a name that was asked for.
C13_Witness == materials = <<>> /\ query = <<BETON>> /\ match = NoSel

\* Candidates, none scoring for beton: the first one.
C13_WitnessFallback ==
    /\ materials = << Plain(<<"S", "t", "a", "a", "l">>), Plain(<<"H", "o", "u", "t">>) >>
    /\ query = <<BETON>>
    /\ match = << Plain(<<"S", "t", "a", "a", "l">>) >>

----------------------------------------------------------------------------
(* C14 .. C18 *)

\* The preview shows a generated name, and a host material bears exactly it.
GeneratedNameExists ==
    /\ txt_preview # Placeholder
    /\ \E i \in 1..Len(materials) : materials[i].Name = txt_preview

HostUnchanged == materials' = materials /\ assets' = assets

\* C14: a create action whose generated name is the name of a host material is
\* rejected before any host mutation: no transaction is started and the
\* materials of the host are the same before and after.
C14_ExistingNameRejected ==
    [][\A answer \in {"Yes", "No"}, fault \in Faults :
          (OnCreate(answer, fault) /\ GeneratedNameExists)
          => txn' = "none" /\ HostUnchanged]_vars

\* beton_generiek_wand is in the host and was asked for again.
C14_Witness ==
    /\ msg = "exists"
    /\ txn = "none"
    /\ Len(materials) = 2
    /\ materials[2].Name = txt_preview

\* C15: a failed precondition ends with its own outcome: 'already exists' when
\* the generated name is in the host, 'no source material found' when the host
\* has no material; the host document is unchanged in both.
C15_DistinctFailureOutcomes ==
    [][\A answer \in {"Yes", "No"}, fault \in Faults :
          OnCreate(answer, fault)
          => /\ GeneratedNameExists => (msg' = "exists" /\ HostUnchanged)
             /\ (txt_preview # Placeholder /\ materials = <<>>)
                   => (msg' = "no_source" /\ msg' # "exists" /\ HostUnchanged)]_vars

\* A name is generated and the host has no material at all.
C15_Witness ==
    /\ msg = "no_source"
    /\ materials = <<>>
    /\ txt_preview # Placeholder

\* The calls of the duplication, other than the asset duplication, that raise.
RaisingInDuplicate == { "collector", "duplicate", "asset_id" }

\* C16: when duplicating the source material raises anywhere but in the asset
\* duplication, the transaction is rolled back and the host holds the same
\* materials as before.
C16_DuplicateFailureRollsBack ==
    [][\A answer \in {"Yes", "No"}, fault \in RaisingInDuplicate :
          (OnCreate(answer, fault) /\ txn' # "none")
          => txn' = "rolledback" /\ HostUnchanged /\ msg' = "failed"]_vars

\* A create action on a host with materials ended in a rollback.
C16_Witness ==
    /\ txn = "rolledback"
    /\ msg = "failed"
    /\ materials # <<>>
    /\ ~(\E i \in 1..Len(materials) : materials[i].Name = txt_preview)

\* C17: when applying the patterns and colors raises, the create action rolls
\* the transaction back: the host is unchanged, the new material does not exist.
C17_PatternFailureRollsBack ==
    [][\A answer \in {"Yes", "No"} :
          (OnCreate(answer, "patterns") /\ txn' # "none")
          => txn' = "rolledback" /\ HostUnchanged]_vars

\* C18: when only the asset duplication raises, the material is still created:
\* it is added with the patterns applied and the source's asset, no asset is
\* added, and the transaction is committed.
C18_AssetFailureTolerated ==
    [][\A answer \in {"Yes", "No"} :
          (OnCreate(answer, "asset") /\ txn' # "none")
          => /\ txn' = "committed"
             /\ msg' = "created"
             /\ assets' = assets
             /\ Len(materials') = Len(materials) + 1
             /\ SubSeq(materials', 1, Len(materials)) = materials
             /\ materials'[Len(materials')].Name = txt_preview
             /\ materials'[Len(materials')].asset = match'[1].asset
             /\ materials'[Len(materials')].look = "applied"]_vars

\* A material was created from a source with an appearance asset, and shares it.
C18_Witness ==
    /\ msg = "created"
    /\ txn = "committed"
    /\ match # NoSel
    /\ match[1].asset # NoSel
    /\ materials[Len(materials)].Name = txt_preview
    /\ materials[Len(materials)].asset = match[1].asset
    /\ materials[Len(materials)].look = "applied"

----------------------------------------------------------------------------
(* C19 *)

\* add_naam(raw) would add: raw is non-empty after trim+lowercase and not stored.
NaamIsNew(raw) == TrimLower(raw) # <<>> /\ ~(\E i \in 1..Len(namen) : namen[i] = TrimLower(raw))

\* add_kenmerk / add_toepassing (naam, raw) would add to table.
EntryIsNew(table, naam, raw) ==
    /\ naam \in DOMAIN table
    /\ TrimLower(raw) # <<>>
    /\ ~(\E i \in 1..Len(table[naam]) : table[naam][i] = TrimLower(raw))

\* C19 as stated: when writing a taxonomy file fails during an add, the caller
\* observes the outcome of a successful add (True), no distinct result or error.
C19_WriteFailureLooksLikeSuccess ==
    [][\A how \in FailureKinds :
          /\ \A raw \in WriteNaamInputs, failing \in {"namen", "kenmerken", "toepassingen"} :
                (AddNaamIO(raw, failing, how) /\ NaamIsNew(raw)) => ret' = "True"
          /\ \A naam \in WriteNaamArgs :
                /\ (AddKenmerkIO(naam, WriteKenmerkInput, "kenmerken", how)
                      /\ EntryIsNew(kenmerken_per_naam, naam, WriteKenmerkInput))
                      => ret' = "True"
                /\ (AddToepassingIO(naam, WriteToepassingInput, "toepassingen", how)
                      /\ EntryIsNew(toepassingen_per_naam, naam, WriteToepassingInput))
                      => ret' = "True"]_vars

\* C19, amended: when writing a taxonomy file fails during an add, the exception
\* of the write leaves the add call, which returns neither True nor False; the
\* entry has been added in memory, and the files whose save comes after the
\* failing one are not written.
C19_WriteFailureRaises ==
    [][\A how \in FailureKinds :
          /\ \A raw \in WriteNaamInputs, failing \in {"namen", "kenmerken", "toepassingen"} :
                (AddNaamIO(raw, failing, how) /\ NaamIsNew(raw))
                => /\ ret' = "raised"
                   /\ namen' = Append(namen, TrimLower(raw))
                   /\ failing = "namen" => UNCHANGED <<disk.kenmerken, disk.toepassingen>>
                   /\ failing = "kenmerken" => UNCHANGED disk.toepassingen
          /\ \A naam \in WriteNaamArgs :
                /\ (AddKenmerkIO(naam, WriteKenmerkInput, "kenmerken", how)
                      /\ EntryIsNew(kenmerken_per_naam, naam, WriteKenmerkInput))
                      => /\ ret' = "raised"
                         /\ kenmerken_per_naam'[naam]
                              = Append(kenmerken_per_naam[naam], TrimLower(WriteKenmerkInput))
                         /\ UNCHANGED <<disk.namen, disk.toepassingen>>
                /\ (AddToepassingIO(naam, WriteToepassingInput, "toepassingen", how)
                      /\ EntryIsNew(toepassingen_per_naam, naam, WriteToepassingInput))
                      => /\ ret' = "raised"
                         /\ toepassingen_per_naam'[naam]
                              = Append(toepassingen_per_naam[naam], TrimLower(WriteToepassingInput))
                         /\ UNCHANGED <<disk.namen, disk.kenmerken>>]_vars

\* add_naam raised on the attribute file: the name is in memory and in the names
\* file, the applications file was never written.
C19_Witness ==
    /\ op = "add_naam"
    /\ ret = "raised"
    /\ namen = << <<"a">> >>
    /\ disk.namen # MissingFile
    /\ disk.toepassingen = MissingFile

----------------------------------------------------------------------------
(* C20 *)

\* The log files tool wrote.
LogsOf(dir, tool) == { f \in dir : f.tool = tool }

----------------------------------------------------------------------------
(* C21 *)

\* table is what the pairs of a JSON object give: its keys, each with its list.
TableOfPairs(pairs, table) ==
    /\ DOMAIN table = {pairs[i][1] : i \in 1..Len(pairs)}
    /\ \A i \in 1..Len(pairs) :
          (\A j \in (i + 1)..Len(pairs) : pairs[j][1] # pairs[i][1])
          => table[pairs[i][1]] = pairs[i][2]

\* C21: load degrades per table: after load_data a table whose file is
\* malformed is empty, and every table whose file exists and is well-formed
\* holds that file's contents, whatever the state of the other two files.
C21_LoadDegradesPerTable ==
    op = "__init__"
    => /\ disk.namen.kind = "malformed" => namen = <<>>
       /\ disk.kenmerken.kind = "malformed" => DOMAIN kenmerken_per_naam = {}
       /\ disk.toepassingen.kind = "malformed" => DOMAIN toepassingen_per_naam = {}
       /\ disk.namen.kind = "json" => namen = disk.namen.doc.namen
       /\ disk.kenmerken.kind = "json"
             => TableOfPairs(disk.kenmerken.doc.kenmerken_per_naam, kenmerken_per_naam)
       /\ disk.toepassingen.kind = "json"
             => TableOfPairs(disk.toepassingen.doc.toepassingen_per_naam,
                             toepassingen_per_naam)

(* C22 *)

\* How often a call occurs among the calls of a create action.
TimesCalled(trace, call) == Cardinality({i \in 1..Len(trace) : trace[i] = call})

\* The messages of a create action that was rejected by a precondition or
\* declined at the confirmation prompt.
RejectedOrDeclined == {"invalid_name", "exists", "no_source", "declined"}

\* C22: every create action starts at most one host transaction; a started
\* transaction ends in exactly one of Commit and RollBack, as its last call,
\* committed exactly when duplicate_material returned a new material and
\* rolled back otherwise; a create action that is rejected by a precondition
\* or declined at the prompt starts no transaction and leaves the host
\* document unchanged.
C22_OneTransactionEndedOnce ==
    [][\A answer \in {"Yes", "No"}, fault \in Faults :
          OnCreate(answer, fault)
          => /\ TimesCalled(calls', "Start") <= 1
             /\ TimesCalled(calls', "Start") = 0
                   => /\ calls' = <<>>
                      /\ txn' = "none"
                      /\ HostUnchanged
             /\ TimesCalled(calls', "Start") = 1
                   => /\ calls'[1] = "Start"
                      /\ TimesCalled(calls', "Commit") + TimesCalled(calls', "RollBack") = 1
                      /\ calls'[Len(calls')] \in {"Commit", "RollBack"}
                      /\ calls'[Len(calls')] = "Commit"
                            <=> TimesCalled(calls', "duplicate_material:new") = 1
                      /\ calls'[Len(calls')] = "RollBack"
                            <=> TimesCalled(calls', "duplicate_material:None") = 1
                      /\ calls'[Len(calls')] = "Commit" <=> txn' = "committed"
                      /\ calls'[Len(calls')] = "RollBack" <=> txn' = "rolledback"
             /\ msg' \in RejectedOrDeclined
                   => /\ calls' = <<>>
                      /\ HostUnchanged]_vars

\* A create action started its transaction, got nothing back from
\* duplicate_material and rolled the transaction back.
C22_Witness ==
    /\ calls = <<"Start", "duplicate_material:None", "RollBack">>
    /\ txn = "rolledback"
    /\ msg = "failed"

(* C23 *)

\* The names of the materials are pairwise distinct.
PairwiseDistinctNames(mats) ==
    \A i, j \in 1..Len(mats) : i # j => mats[i].Name # mats[j].Name

\* The create action added exactly one material, and it carries the name.
AddsOneMaterialNamed(name) ==
    /\ Len(materials') = Len(materials) + 1
    /\ \A i \in 1..Len(materials) : materials'[i] = materials[i]
    /\ materials'[Len(materials')].Name = name

\* The last create action succeeded and its name is still the generated one.
JustCreatedSameName ==
    /\ msg = "created"
    /\ materials # <<>>
    /\ materials[Len(materials)].Name = txt_preview

\* C23: from a host document whose material names are pairwise distinct,
\* the names stay pairwise distinct after any sequence of create actions;
\* each successful create adds exactly one material, carrying the generated
\* name; a second create with the same generated name is rejected as
\* already existing and changes nothing.
C23_NamesStayDistinct ==
    /\ [](PairwiseDistinctNames(materials))
    /\ [][\A answer \in {"Yes", "No"}, fault \in Faults :
             OnCreate(answer, fault)
             => /\ msg' = "created" => AddsOneMaterialNamed(txt_preview)
                /\ msg' # "created" => HostUnchanged
                /\ JustCreatedSameName => msg' = "exists"]_vars

\* A material was created by a create action and the same generated name was
\* asked for once more, which was rejected.
C23_Witness ==
    /\ msg = "exists"
    /\ \E i \in 1..Len(materials) :
          /\ materials[i].Name = txt_preview
          /\ materials[i].look # "host"
    /\ PairwiseDistinctNames(materials)

====
